---------------------------- MODULE Spec2Model ----------------------------
(***************************************************************************)
(* Model of script.js: start() builds the scene, generateMap() classifies  *)
(* one tile per grid coordinate from a coherent-noise sample and may plant *)
(* a tree on it, and the mouse / touch / wheel / resize handlers and the   *)
(* per-frame update() then act on the camera and the light.                *)
(*                                                                         *)
(* Units.  Noise values and minHeight thresholds are integers in           *)
(* hundredths (80 is 0.80); baseElevation is in tenths (-5 is -0.5).       *)
(* Elevations, heights and mesh positions are exact rationals [n, d].      *)
(* The camera frustum and the camera pan are fixed-point integers in       *)
(* tenths of a world unit, every product rounded to nearest (the stand-in  *)
(* for the rounding of the doubles the script computes with).              *)
(***************************************************************************)
EXTENDS Integers, Sequences, FiniteSets

\* ------------------------------------------------------------ bounds
\* Largest grid edge the general specification generates.
MaxMapSize == 2
\* Noise generators (seeds) new SimplexNoise() may come up with: 0..MaxSeed.
MaxSeed == 3
\* Input events handled after start-up in the general specification.
MaxEvents == 3

\* --------------------------------------------------- configuration
MAP_SIZE == 64
TILE_SIZE == 1
NOISE_SCALE == 100
CAMERA_FRUSTUM_SIZE == 100

\* ------------------------------------------------------- rationals
Abs(a) == IF a < 0 THEN -a ELSE a

RECURSIVE GCD(_, _)
GCD(a, b) == IF b = 0 THEN a ELSE GCD(b, a % b)

\* The rational n/d in lowest terms with a positive denominator.
Rat(n, d) ==
    LET s == IF d < 0 THEN -1 ELSE 1
        g == GCD(Abs(n), Abs(d))
    IN  [n |-> (s * n) \div g, d |-> (s * d) \div g]

RInt(k) == [n |-> k, d |-> 1]
RAdd(p, q) == Rat(p.n * q.d + q.n * p.d, p.d * q.d)
RSub(p, q) == Rat(p.n * q.d - q.n * p.d, p.d * q.d)
RMul(p, q) == Rat(p.n * q.n, p.d * q.d)
RDiv(p, q) == Rat(p.n * q.d, p.d * q.n)

\* ----------------------------------------------------- fixed point
\* a / b rounded to nearest, ties away from zero (b > 0).
RoundDiv(a, b) ==
    IF a >= 0 THEN (2 * a + b) \div (2 * b)
              ELSE -((2 * (-a) + b) \div (2 * b))

\* n world units in fixed point.
Fx(n) == n * 10

\* v * num / den in fixed point.
Scale(v, num, den) == RoundDiv(v * num, den)

Max(a, b) == IF a >= b THEN a ELSE b
Min(a, b) == IF a <= b THEN a ELSE b

\* ------------------------------------------------- tile type table
\* The table with SAND's baseElevation mistyped above GRASS's.
TILE_TYPES_SandRaised ==
    << [name |-> "STONE",      minHeight |-> 80, baseElevation |-> 10],
       [name |-> "GRASS_TREE", minHeight |-> 65, baseElevation |-> 5],
       [name |-> "GRASS",      minHeight |-> 45, baseElevation |-> 4],
       [name |-> "SAND",       minHeight |-> 35, baseElevation |-> 5],
       [name |-> "WATER",      minHeight |-> 0,  baseElevation |-> -5] >>

\* TILE_TYPES in declaration order (the order Object.keys returns).
TILE_TYPES ==
    << [name |-> "STONE",      minHeight |-> 80, baseElevation |-> 10],
       [name |-> "GRASS_TREE", minHeight |-> 65, baseElevation |-> 5],
       [name |-> "GRASS",      minHeight |-> 45, baseElevation |-> 4],
       [name |-> "SAND",       minHeight |-> 35, baseElevation |-> 1],
       [name |-> "WATER",      minHeight |-> 0,  baseElevation |-> -5] >>

\* TILE_TYPES.<name>: the entry of table t called name.
TypeNamed(t, name) == t[CHOOSE i \in 1..Len(t) : t[i].name = name]

\* Insert entry e into the sequence s, already in descending minHeight
\* order, after every entry that is not smaller: the sort is stable.
RECURSIVE InsertDesc(_, _)
InsertDesc(s, e) ==
    IF s = << >> THEN << e >>
    ELSE IF Head(s).minHeight >= e.minHeight
         THEN << Head(s) >> \o InsertDesc(Tail(s), e)
         ELSE << e >> \o s

RECURSIVE SortDesc(_)
SortDesc(t) ==
    IF t = << >> THEN << >>
    ELSE InsertDesc(SortDesc(SubSeq(t, 1, Len(t) - 1)), t[Len(t)])

\* typeKeys: the table's entries sorted by descending minHeight.
TypeKeys(t) == SortDesc(t)

\* The threshold test with > written for >=.
MeetsThresholdStrict(noiseValue, type) == noiseValue > type.minHeight

\* The threshold test of the classification loop.
MeetsThreshold(noiseValue, type) == noiseValue >= type.minHeight

\* The first entry of keys whose threshold noiseValue meets; dflt if none.
RECURSIVE FirstMatch(_, _, _)
FirstMatch(keys, noiseValue, dflt) ==
    IF keys = << >> THEN dflt
    ELSE IF MeetsThreshold(noiseValue, Head(keys)) THEN Head(keys)
         ELSE FirstMatch(Tail(keys), noiseValue, dflt)

\* currentTileType for a noise value: WATER unless the loop finds a match.
Classify(t, noiseValue) == FirstMatch(TypeKeys(t), noiseValue, TypeNamed(t, "WATER"))

\* ---------------------------------------------------- elevation
\* heightVariation: 0 for WATER, else 0.3 * (noise - min) / (1 - min).
\* (lowerBound, which the script computes first, is never read.)
HeightVariation(type, noiseValue) ==
    IF type.name # "WATER"
    THEN RMul(RDiv(RSub(Rat(noiseValue, 100), Rat(type.minHeight, 100)),
                   RSub(RInt(1), Rat(type.minHeight, 100))),
              Rat(3, 10))
    ELSE RInt(0)

FinalElevation(type, noiseValue) ==
    RAdd(Rat(type.baseElevation, 10), HeightVariation(type, noiseValue))

\* tileHeight without the branch that makes water thin.
TileHeightNoThinWater(t, type, finalElevation) ==
    RAdd(RInt(TILE_SIZE),
         RSub(finalElevation, Rat(TypeNamed(t, "WATER").baseElevation, 10)))

\* tileHeight: thin for WATER, else stacked above the water level.
TileHeight(t, type, finalElevation) ==
    IF type.name # "WATER"
    THEN RAdd(RInt(TILE_SIZE),
              RSub(finalElevation, Rat(TypeNamed(t, "WATER").baseElevation, 10)))
    ELSE RMul(RInt(TILE_SIZE), Rat(2, 10))

\* tileMesh.position.y
TilePosY(finalElevation, tileHeight) ==
    RSub(finalElevation,
         RSub(RDiv(tileHeight, RInt(2)), RDiv(RInt(TILE_SIZE), RInt(2))))

\* worldX / worldZ of a grid index on a map of edge size.
WorldCoord(g, size) ==
    RAdd(RSub(RInt(g * TILE_SIZE), RDiv(RInt(size * TILE_SIZE), RInt(2))),
         RDiv(RInt(TILE_SIZE), RInt(2)))

\* ------------------------------------------------------------ noise
\* Normalised noise values, in hundredths, the stand-in generators take:
\* every threshold of the table, the value just below it, and both ends.
NoiseSamples == << 0, 34, 35, 44, 45, 64, 65, 79, 80, 90, 100 >>

Seeds == 0..MaxSeed

\* noiseGenerator.noise2D(u, v) for the generator built from seed s, in
\* hundredths of [-1, 1].  SimplexNoise is a library outside the script;
\* this stand-in is a fixed function of the generator and the sample
\* point: generator 0 is flat at 0.8 (0.9 once normalised), the others
\* walk through NoiseSamples.
noise2D(s, u, v) ==
    LET X == RMul(u, RInt(NOISE_SCALE)).n
        Z == RMul(v, RInt(NOISE_SCALE)).n
        i == ((s - 1) * 4 + 2 * X + Z) % Len(NoiseSamples)
    IN  IF s = 0 THEN 80 ELSE 2 * NoiseSamples[i + 1] - 100

\* The normalisation without its shift.
NormalizeUnshifted(noise) == noise \div 2

\* (noise + 1) / 2, in hundredths.
Normalize(noise) == (noise + 100) \div 2

\* ------------------------------------------------------------ state
\* Window sizes (innerWidth, innerHeight) the browser may give the page.
Windows == { << 800, 600 >>, << 600, 800 >> }

\* Pointer positions (clientX, clientY) of mouse and touch events.
Pointers == { << 0, 0 >>, << 400, 300 >> }

VARIABLES
    pc,                     \* "load", "generate" (inside the loops), "running"
    mapSize,                \* MAP_SIZE of this configuration
    tileTypes,              \* TILE_TYPES of this configuration
    win,                    \* << window.innerWidth, window.innerHeight >>
    resizePending,          \* the window changed size, resize not yet handled
    seed,                   \* the generator new SimplexNoise() built
    gx, gz,                 \* the loop indices x and z of generateMap
    mapGroup,               \* the meshes added to mapGroup, in order
    genCalls,               \* calls of generateMap so far
    camera,                 \* [left, right, top, bottom] of the frustum
    cameraPos,              \* camera.position, as the pan since start()
    isDragging,
    previousMousePosition,
    light,                  \* directionalLight: the sign of position.x, what
                            \* the target follows, and the pan it was set at
    events,                 \* input events handled since start()
    wheeled,                \* a wheel event has been handled
    prevRun                 \* what the previous page load produced

vars == << pc, mapSize, tileTypes, win, resizePending, seed, gx, gz, mapGroup,
           genCalls, camera, cameraPos, isDragging, previousMousePosition,
           light, events, wheeled, prevRun >>

genVars == << seed, gx, gz, mapGroup, genCalls >>
cfgVars == << mapSize, tileTypes >>
dragVars == << isDragging, previousMousePosition >>

NoRun == [seed |-> -1, tiles |-> << >>, trees |-> << >>]

\* The globals as the script declares them, before start() runs.
Globals ==
    /\ pc = "load"
    /\ resizePending = FALSE
    /\ seed = -1
    /\ gx = 0
    /\ gz = 0
    /\ mapGroup = << >>
    /\ genCalls = 0
    /\ camera = [left |-> 0, right |-> 0, top |-> 0, bottom |-> 0]
    /\ cameraPos = [right |-> 0, forward |-> 0]
    /\ isDragging = FALSE
    /\ previousMousePosition = [x |-> 0, y |-> 0]
    /\ light = [side |-> 0, aim |-> "none", target |-> [right |-> 0, forward |-> 0]]
    /\ events = 0
    /\ wheeled = FALSE
    /\ prevRun = NoRun

Init ==
    /\ Globals
    /\ mapSize \in 1..MaxMapSize
    /\ tileTypes = TILE_TYPES
    /\ win \in Windows

\* ------------------------------------------------------- start()
\* start() up to the loops of generateMap: the generator, the camera
\* frustum from the window's aspect, the light over the map's centre, and
\* an empty mapGroup.
Start(s) ==
    /\ pc = "load"
    /\ pc' = "generate"
    /\ seed' = s
    /\ camera' =
          LET width == Scale(Fx(CAMERA_FRUSTUM_SIZE), win[1], win[2])
          IN  [left   |-> -RoundDiv(width, 2),
               right  |-> RoundDiv(width, 2),
               top    |-> RoundDiv(Fx(CAMERA_FRUSTUM_SIZE), 2),
               bottom |-> -RoundDiv(Fx(CAMERA_FRUSTUM_SIZE), 2)]
    /\ cameraPos' = [right |-> 0, forward |-> 0]
    /\ mapGroup' = << >>
    /\ genCalls' = genCalls + 1
    /\ gx' = 0
    /\ gz' = 0
    /\ light' = [side |-> 1, aim |-> "origin", target |-> [right |-> 0, forward |-> 0]]
    /\ UNCHANGED << cfgVars, win, resizePending, dragVars, events, wheeled,
                    prevRun >>

\* The tree test with "not WATER" written for "is GRASS_TREE".
TreeTrialsAnyLand(type) == IF type.name # "WATER" THEN BOOLEAN ELSE { FALSE }

\* The trial outcomes for which a tree is planted on a tile of this type:
\* currentTileType === TILE_TYPES.GRASS_TREE && Math.random() < 0.4.
TreeTrials(type) == IF type.name = "GRASS_TREE" THEN BOOLEAN ELSE { FALSE }

\* The sample taken from a generator that the tree trials have advanced.
SampleNoiseDrifting(x, z) ==
    Normalize(noise2D(seed + Len(SelectSeq(mapGroup, LAMBDA m : m.kind = "trunk")),
                      Rat(x, NOISE_SCALE), Rat(z, NOISE_SCALE)))

\* noiseValue of grid coordinate (x, z): the generator's sample, normalised.
SampleNoise(x, z) ==
    Normalize(noise2D(seed, Rat(x, NOISE_SCALE), Rat(z, NOISE_SCALE)))

\* The tile mesh of grid coordinate (x, z).
TileMesh(x, z) ==
    LET noiseValue == SampleNoise(x, z)
        type == Classify(tileTypes, noiseValue)
        finalElevation == FinalElevation(type, noiseValue)
        tileHeight == TileHeight(tileTypes, type, finalElevation)
    IN  [kind |-> "tile", x |-> x, z |-> z,
         worldX |-> WorldCoord(x, mapSize), worldZ |-> WorldCoord(z, mapSize),
         noiseValue |-> noiseValue, type |-> type.name,
         finalElevation |-> finalElevation, height |-> tileHeight,
         scaleY |-> RDiv(tileHeight, RInt(TILE_SIZE)),
         posY |-> TilePosY(finalElevation, tileHeight)]

\* The trunk and leaves meshes of a tree on the tile.
TreeMeshes(tile) ==
    LET trunkHeight == RMul(RInt(TILE_SIZE), Rat(15, 10))
        leavesHeight == RMul(RInt(TILE_SIZE), Rat(12, 10))
        treeBaseY == RAdd(tile.finalElevation, RDiv(RInt(TILE_SIZE), RInt(2)))
    IN  << [kind |-> "trunk", x |-> tile.x, z |-> tile.z,
            worldX |-> tile.worldX, worldZ |-> tile.worldZ, baseY |-> treeBaseY,
            posY |-> RAdd(treeBaseY, RDiv(trunkHeight, RInt(2)))],
           [kind |-> "leaves", x |-> tile.x, z |-> tile.z,
            worldX |-> tile.worldX, worldZ |-> tile.worldZ, baseY |-> treeBaseY,
            posY |-> RAdd(RAdd(treeBaseY, trunkHeight), RDiv(leavesHeight, RInt(2)))] >>

\* One pass of the inner loop of generateMap: the tile of (gx, gz), and a
\* tree on it when the trial succeeds.
GenerateTile ==
    /\ pc = "generate"
    /\ gx < mapSize
    /\ LET tile == TileMesh(gx, gz)
       IN  \E tree \in TreeTrials(TypeNamed(tileTypes, tile.type)) :
             mapGroup' = mapGroup \o << tile >> \o
                         (IF tree THEN TreeMeshes(tile) ELSE << >>)
    /\ IF gz + 1 < mapSize
       THEN gz' = gz + 1 /\ gx' = gx
       ELSE gz' = 0 /\ gx' = gx + 1
    /\ UNCHANGED << pc, cfgVars, win, resizePending, seed, genCalls, camera,
                    cameraPos, dragVars, light, events, wheeled, prevRun >>

\* The light as update() leaves it: on the side of the sky the clock
\* (Date.now(), free) puts it, aimed ahead of the camera.
LightAt(side) == [side |-> side, aim |-> "camera", target |-> cameraPos]

\* The end of start(): scene.add(mapGroup), setupEventListeners() and the
\* first call of update().
FinishStart ==
    /\ pc = "generate"
    /\ gx = mapSize
    /\ pc' = "running"
    /\ \E side \in { -1, 1 } : light' = LightAt(side)
    /\ UNCHANGED << cfgVars, win, resizePending, genVars, camera, cameraPos,
                    dragVars, events, wheeled, prevRun >>

\* --------------------------------------------------------- events
\* Every handler counts the event it handled, up to MaxEvents.
Counted == events' = Min(events + 1, MaxEvents)

onMouseDown(event) ==
    /\ pc = "running"
    /\ isDragging' = TRUE
    /\ previousMousePosition' = [x |-> event[1], y |-> event[2]]
    /\ Counted
    /\ UNCHANGED << pc, cfgVars, win, resizePending, genVars, camera, cameraPos,
                    light, wheeled, prevRun >>

\* camera.position after moveCamera(deltaX, deltaY): the pan along the
\* camera's right and forward directions on the ground plane.
moveCamera(deltaX, deltaY) ==
    [right   |-> cameraPos.right
                   + Scale(-deltaX, camera.right - camera.left, win[1]),
     forward |-> cameraPos.forward
                   + Scale(-deltaY, camera.top - camera.bottom, win[2])]

onMouseMove(event) ==
    /\ pc = "running"
    /\ IF ~isDragging
       THEN UNCHANGED << cameraPos, previousMousePosition >>
       ELSE /\ cameraPos' = moveCamera(previousMousePosition.x - event[1],
                                       previousMousePosition.y - event[2])
            /\ previousMousePosition' = [x |-> event[1], y |-> event[2]]
    /\ Counted
    /\ UNCHANGED << pc, cfgVars, win, resizePending, genVars, camera, isDragging,
                    light, wheeled, prevRun >>

onMouseUp ==
    /\ pc = "running"
    /\ isDragging' = FALSE
    /\ Counted
    /\ UNCHANGED << pc, cfgVars, win, resizePending, genVars, camera, cameraPos,
                    previousMousePosition, light, wheeled, prevRun >>

\* touches is event.touches.length, event the position of touches[0].
onTouchStart(touches, event) ==
    /\ pc = "running"
    /\ IF touches = 1
       THEN /\ isDragging' = TRUE
            /\ previousMousePosition' = [x |-> event[1], y |-> event[2]]
       ELSE UNCHANGED dragVars
    /\ Counted
    /\ UNCHANGED << pc, cfgVars, win, resizePending, genVars, camera, cameraPos,
                    light, wheeled, prevRun >>

\* The touchmove handler without the isDragging test.
onTouchMoveUnguarded(touches, event) ==
    /\ pc = "running"
    /\ IF touches # 1
       THEN UNCHANGED << cameraPos, previousMousePosition >>
       ELSE /\ cameraPos' = moveCamera(event[1] - previousMousePosition.x,
                                       event[2] - previousMousePosition.y)
            /\ previousMousePosition' = [x |-> event[1], y |-> event[2]]
    /\ Counted
    /\ UNCHANGED << pc, cfgVars, win, resizePending, genVars, camera, isDragging,
                    light, wheeled, prevRun >>

onTouchMove(touches, event) ==
    /\ pc = "running"
    /\ IF ~isDragging \/ touches # 1
       THEN UNCHANGED << cameraPos, previousMousePosition >>
       ELSE /\ cameraPos' = moveCamera(event[1] - previousMousePosition.x,
                                       event[2] - previousMousePosition.y)
            /\ previousMousePosition' = [x |-> event[1], y |-> event[2]]
    /\ Counted
    /\ UNCHANGED << pc, cfgVars, win, resizePending, genVars, camera, isDragging,
                    light, wheeled, prevRun >>

onTouchEnd(touches) ==
    /\ pc = "running"
    /\ isDragging' = IF isDragging /\ touches < 1 THEN FALSE ELSE isDragging
    /\ Counted
    /\ UNCHANGED << pc, cfgVars, win, resizePending, genVars, camera, cameraPos,
                    previousMousePosition, light, wheeled, prevRun >>

\* The frustum after a wheel event without the clamp.
ZoomedFrustumUnclamped(deltaY) ==
    LET zoomAmount == IF deltaY < 0 THEN 9 ELSE 11
        top1 == Scale(camera.top, zoomAmount, 10)
        bottom1 == -top1
    IN  [left   |-> Scale(bottom1, win[1], win[2]),
         right  |-> Scale(top1, win[1], win[2]),
         top    |-> top1,
         bottom |-> bottom1]

\* The frustum after onMouseWheel: zoom by 0.9 or 1.1, clamp the half
\* height to [minZoomHeight / 2, maxZoomHeight / 2], and restore the
\* aspect ratio.
ZoomedFrustum(deltaY) ==
    LET zoomFactor == 1
        zoomAmount == IF deltaY < 0 THEN 10 - zoomFactor ELSE 10 + zoomFactor
        left0 == Scale(camera.left, zoomAmount, 10)
        right0 == Scale(camera.right, zoomFactor, 10)
        top0 == Scale(camera.top, zoomAmount, 10)
        bottom0 == Scale(camera.bottom, zoomAmount, 10)
        minZoomHeight == Fx(10)
        maxZoomHeight == Scale(Fx(mapSize * TILE_SIZE), 15, 10)
        top1 == Max(RoundDiv(minZoomHeight, 2), Min(RoundDiv(maxZoomHeight, 2), top0))
        bottom1 == -top1
    IN  [left   |-> Scale(bottom1, win[1], win[2]),
         right  |-> Scale(top1, win[1], win[2]),
         top    |-> top1,
         bottom |-> bottom1]

onMouseWheel(deltaY) ==
    /\ pc = "running"
    /\ camera' = ZoomedFrustum(deltaY)
    /\ wheeled' = TRUE
    /\ Counted
    /\ UNCHANGED << pc, cfgVars, win, resizePending, genVars, cameraPos, dragVars,
                    light, prevRun >>

\* The browser gives the window another size; the resize event follows.
WindowResized ==
    /\ pc = "running"
    /\ \E w \in Windows \ { win } : win' = w
    /\ resizePending' = TRUE
    /\ UNCHANGED << pc, cfgVars, genVars, camera, cameraPos, dragVars, light,
                    events, wheeled, prevRun >>

\* The frustum after onWindowResize: the view height kept, the width
\* from the new aspect.
ResizedFrustum ==
    LET currentHeight == camera.top - camera.bottom
        top1 == RoundDiv(currentHeight, 2)
        bottom1 == -RoundDiv(currentHeight, 2)
    IN  [left   |-> Scale(bottom1, win[1], win[2]),
         right  |-> Scale(top1, win[1], win[2]),
         top    |-> top1,
         bottom |-> bottom1]

onWindowResize ==
    /\ pc = "running"
    /\ resizePending
    /\ resizePending' = FALSE
    /\ camera' = ResizedFrustum
    /\ Counted
    /\ UNCHANGED << pc, cfgVars, win, genVars, cameraPos, dragVars, light,
                    wheeled, prevRun >>

\* A frame that also starts the map over.
updateRegenerating ==
    /\ pc = "running"
    /\ \E side \in { -1, 1 } : light' = LightAt(side)
    /\ mapGroup' = << >>
    /\ UNCHANGED << pc, cfgVars, win, resizePending, seed, gx, gz, genCalls,
                    camera, cameraPos, dragVars, events, wheeled, prevRun >>

\* One frame: the light moves with the clock and is aimed at the camera.
update ==
    /\ pc = "running"
    /\ \E side \in { -1, 1 } : light' = LightAt(side)
    /\ UNCHANGED << pc, cfgVars, win, resizePending, genVars, camera, cameraPos,
                    dragVars, events, wheeled, prevRun >>

\* ------------------------------------------------------ page loads
Tiles(group) == SelectSeq(group, LAMBDA m : m.kind = "tile")
Trunks(group) == SelectSeq(group, LAMBDA m : m.kind = "trunk")

\* The page is loaded again with the same configuration: the script runs
\* from the top (at most once more; prevRun keeps what this load made).
Reload ==
    /\ pc = "running"
    /\ prevRun = NoRun
    /\ prevRun' = [seed |-> seed, tiles |-> Tiles(mapGroup), trees |-> Trunks(mapGroup)]
    /\ pc' = "load"
    /\ resizePending' = FALSE
    /\ seed' = -1
    /\ gx' = 0
    /\ gz' = 0
    /\ mapGroup' = << >>
    /\ genCalls' = 0
    /\ camera' = [left |-> 0, right |-> 0, top |-> 0, bottom |-> 0]
    /\ cameraPos' = [right |-> 0, forward |-> 0]
    /\ isDragging' = FALSE
    /\ previousMousePosition' = [x |-> 0, y |-> 0]
    /\ light' = [side |-> 0, aim |-> "none", target |-> [right |-> 0, forward |-> 0]]
    /\ events' = 0
    /\ wheeled' = FALSE
    /\ UNCHANGED << cfgVars, win >>

\* -------------------------------------------------- specifications
StartUp == \E s \in Seeds : Start(s)

MouseDown == \E p \in Pointers : onMouseDown(p)
MouseMove == \E p \in Pointers : onMouseMove(p)
MouseUp == onMouseUp
MouseLeave == onMouseUp
TouchStart == \E n \in 1..2 : \E p \in Pointers : onTouchStart(n, p)
TouchMove == \E n \in 1..2 : \E p \in Pointers : onTouchMove(n, p)
TouchEnd == \E n \in 0..1 : onTouchEnd(n)
MouseWheel == \E deltaY \in { -1, 1 } : onMouseWheel(deltaY)

\* The script with the table and grids up to MaxMapSize, any generator,
\* and up to MaxEvents input events.
Next ==
    \/ StartUp
    \/ GenerateTile
    \/ FinishStart
    \/ (events < MaxEvents /\ MouseDown)
    \/ (events < MaxEvents /\ MouseMove)
    \/ (events < MaxEvents /\ MouseUp)
    \/ (events < MaxEvents /\ MouseLeave)
    \/ (events < MaxEvents /\ TouchStart)
    \/ (events < MaxEvents /\ TouchMove)
    \/ (events < MaxEvents /\ TouchEnd)
    \/ (events < MaxEvents /\ MouseWheel)
    \/ (events < MaxEvents /\ onWindowResize)
    \/ WindowResized
    \/ update

Spec == Init /\ [][Next]_vars

\* The script on flat terrain, with the map as configured (MAP_SIZE = 64)
\* or a small one, under any number of wheel and resize events.
InitCam ==
    /\ Globals
    /\ mapSize \in { 8, MAP_SIZE }
    /\ tileTypes = TILE_TYPES
    /\ win \in Windows

NextCam ==
    \/ Start(0)
    \/ GenerateTile
    \/ FinishStart
    \/ MouseWheel
    \/ WindowResized
    \/ onWindowResize

SpecCam == InitCam /\ [][NextCam]_vars

\* Start-up alone: the generation pass and the first frame.
NextGen ==
    \/ StartUp
    \/ GenerateTile
    \/ FinishStart
    \/ update

\* Two loads of the page, one after the other, with one configuration.
NextRuns == NextGen \/ Reload

SpecRuns == Init /\ [][NextRuns]_vars

\* The end-to-end case: a 4 x 4 map over the flat generator (0.9 at
\* every coordinate).
InitE2E ==
    /\ Globals
    /\ mapSize = 4
    /\ tileTypes = TILE_TYPES
    /\ win \in Windows

NextE2E ==
    \/ Start(0)
    \/ GenerateTile
    \/ FinishStart
    \/ (events < MaxEvents /\ MouseDown)
    \/ (events < MaxEvents /\ MouseMove)
    \/ (events < MaxEvents /\ MouseUp)
    \/ (events < MaxEvents /\ MouseLeave)
    \/ (events < MaxEvents /\ TouchStart)
    \/ (events < MaxEvents /\ TouchMove)
    \/ (events < MaxEvents /\ TouchEnd)
    \/ (events < MaxEvents /\ MouseWheel)
    \/ (events < MaxEvents /\ onWindowResize)
    \/ WindowResized
    \/ update

SpecE2E == InitE2E /\ [][NextE2E]_vars

\* Tables an edit of the configuration block can leave behind: GRASS
\* given SAND's threshold, and WATER's threshold raised off 0.
TableWithTie ==
    [TILE_TYPES EXCEPT ![3] = [name |-> "GRASS", minHeight |-> 35, baseElevation |-> 4]]
TableWithGap ==
    [TILE_TYPES EXCEPT ![5] = [name |-> "WATER", minHeight |-> 10, baseElevation |-> -5]]

\* minHeight values distinct, and one of them 0.
WellFormed(t) ==
    /\ \A i, j \in 1..Len(t) : t[i].minHeight = t[j].minHeight => i = j
    /\ \E i \in 1..Len(t) : t[i].minHeight = 0

\* Start-up with the table as configured or as mis-edited.
InitCfg ==
    /\ Globals
    /\ mapSize \in 1..MaxMapSize
    /\ tileTypes \in { TILE_TYPES, TableWithTie, TableWithGap }
    /\ win \in Windows

SpecCfg == InitCfg /\ [][NextGen]_vars

\* ------------------------------------------------------------ claims
Meshes == { mapGroup[i] : i \in 1..Len(mapGroup) }
TileMeshes == { m \in Meshes : m.kind = "tile" }
Entries(t) == { t[i] : i \in 1..Len(t) }

\* C1: every tile generateMap has produced carries a noise value in [0, 1]
\* and exactly one type of the table; that type's minHeight does not exceed
\* the tile's noise value, and no type with a higher minHeight does so too.
C1_ClassificationTotal ==
    \A m \in TileMeshes :
        /\ m.x \in 0..(mapSize - 1) /\ m.z \in 0..(mapSize - 1)
        /\ m.noiseValue \in 0..100
        /\ Cardinality({ e \in Entries(tileTypes) : e.name = m.type }) = 1
        /\ \A e \in Entries(tileTypes) :
              e.name = m.type =>
                /\ e.minHeight <= m.noiseValue
                /\ \A u \in Entries(tileTypes) :
                      u.minHeight <= m.noiseValue => u.minHeight <= e.minHeight

\* C1 witness: the pass is over and has classified a tile whose noise value
\* sits exactly on the highest threshold, and another at noise 0.
C1_Witness ==
    /\ pc = "running"
    /\ \E m \in TileMeshes : m.noiseValue = 80 /\ m.type = "STONE"
    /\ \E m \in TileMeshes : m.noiseValue = 0 /\ m.type = "WATER"

\* The shaped elevation of a tile of entry e at noise n, as one fraction:
\* base / 10 + 3 (n - min) / (10 (100 - min)); the base alone for WATER.
ShapedElevation(e, n) ==
    IF e.name = "WATER"
    THEN Rat(e.baseElevation, 10)
    ELSE Rat(e.baseElevation * (100 - e.minHeight) + 3 * (n - e.minHeight),
             10 * (100 - e.minHeight))

\* C2: every tile's finalElevation is baseElevation + 0.3 (noise - min) /
\* (1 - min) (baseElevation alone for WATER), and its height is
\* TILE_SIZE * 0.2 for WATER and TILE_SIZE + finalElevation -
\* WATER.baseElevation for every other type.
C2_RenderHeight ==
    \A m \in TileMeshes :
        \A e \in Entries(tileTypes) :
            e.name = m.type =>
              /\ m.finalElevation = ShapedElevation(e, m.noiseValue)
              /\ m.height =
                   IF m.type = "WATER"
                   THEN Rat(2 * TILE_SIZE, 10)
                   ELSE LET fe == ShapedElevation(e, m.noiseValue)
                        IN  Rat(fe.d * TILE_SIZE * 2 + fe.n * 2 + fe.d, fe.d * 2)

\* C2 witness: a finished map with a water tile and a land tile whose
\* noise value lies strictly inside its band.
C2_Witness ==
    /\ pc = "running"
    /\ \E m \in TileMeshes : m.type = "WATER" /\ m.noiseValue > 0
    /\ \E m \in TileMeshes : m.type = "SAND" /\ m.noiseValue = 44

\* C3 (as claimed): the top face of every tile's box, position.y +
\* scale.y * TILE_SIZE / 2, is at the tile's finalElevation.
C3_TopAtFinalElevation ==
    \A m \in TileMeshes :
        RAdd(m.posY, RDiv(RMul(m.scaleY, RInt(TILE_SIZE)), RInt(2))) = m.finalElevation

\* C4: every trunk and every leaves mesh stands on the coordinate of a tile
\* classified GRASS_TREE, and no coordinate holds more than one trunk or
\* more than one leaves mesh.
C4_TreesOnlyOnForest ==
    /\ \A v \in Meshes :
          v.kind \in { "trunk", "leaves" } =>
            \E m \in TileMeshes : m.x = v.x /\ m.z = v.z /\ m.type = "GRASS_TREE"
    /\ \A i, j \in 1..Len(mapGroup) :
          ( /\ mapGroup[i].kind = mapGroup[j].kind
            /\ mapGroup[i].x = mapGroup[j].x
            /\ mapGroup[i].z = mapGroup[j].z ) => i = j

\* C4 witness: a finished map holding tiles of all five types, with a tree
\* on one GRASS_TREE tile and none on another.
C4_Witness ==
    /\ pc = "running"
    /\ \E m \in TileMeshes :
          /\ m.type = "GRASS_TREE"
          /\ \E v \in Meshes : v.kind = "trunk" /\ v.x = m.x /\ v.z = m.z
          /\ \E v \in Meshes : v.kind = "leaves" /\ v.x = m.x /\ v.z = m.z
    /\ \E m \in TileMeshes :
          /\ m.type = "GRASS_TREE"
          /\ ~ \E v \in Meshes : v.kind # "tile" /\ v.x = m.x /\ v.z = m.z
    /\ \E m \in TileMeshes : m.type \in { "STONE", "GRASS", "SAND", "WATER" }

\* C5 (as claimed): a table that is not well formed is turned away before
\* the pass makes any tile.
C5_MalformedRejected == ~WellFormed(tileTypes) => Tiles(mapGroup) = << >>

\* C6: once start() has returned, every step leaves mapGroup as it is and
\* generateMap called exactly once.
C6_MapImmutable ==
    [][pc = "running" =>
         /\ mapGroup' = mapGroup
         /\ genCalls = 1
         /\ genCalls' = 1
         /\ pc' = "running"]_vars

\* C6 witness: the map is made, and a wheel event and a drag that moved
\* the camera have been handled since.
C6_Witness ==
    /\ pc = "running"
    /\ Len(mapGroup) > mapSize
    /\ wheeled
    /\ isDragging
    /\ cameraPos # [right |-> 0, forward |-> 0]
    /\ events = MaxEvents

\* The tiles of this load and of the one before it.
BothRuns == TileMeshes \cup { prevRun.tiles[i] : i \in 1..Len(prevRun.tiles) }
BaseOf(name) == TypeNamed(tileTypes, name).baseElevation

\* C7: of two tiles, at one coordinate in two loads or at two coordinates,
\* the one with the greater noise value has a type whose baseElevation is
\* at least the other's.
C7_BaseElevationMonotone ==
    \A a, b \in BothRuns :
        a.noiseValue <= b.noiseValue => BaseOf(a.type) <= BaseOf(b.type)

\* C7 witness: the second load is over and gave a coordinate a greater
\* noise value and a higher type than the first load gave it.
C7_Witness ==
    /\ pc = "running"
    /\ prevRun # NoRun
    /\ \E i \in 1..Len(prevRun.tiles) :
          /\ prevRun.tiles[i].noiseValue < Tiles(mapGroup)[i].noiseValue
          /\ BaseOf(prevRun.tiles[i].type) < BaseOf(Tiles(mapGroup)[i].type)
    /\ \E i \in 1..Len(prevRun.tiles) :
          /\ prevRun.tiles[i].noiseValue < Tiles(mapGroup)[i].noiseValue
          /\ prevRun.tiles[i].type = Tiles(mapGroup)[i].type

\* What determinism fixes of a tile.
Fixed(m) == << m.x, m.z, m.noiseValue, m.type, m.finalElevation >>

C9_EndToEnd ==
    /\ \A m \in Meshes :
          /\ m.kind = "tile"
          /\ m.type = "STONE"
          /\ m.noiseValue = 90
          /\ m.finalElevation = Rat(10 * 20 + 3 * (90 - 80), 10 * 20)
    /\ pc = "running" =>
          /\ Len(mapGroup) = 16
          /\ \A x, z \in 0..3 :
                Cardinality({ i \in 1..Len(mapGroup) :
                                mapGroup[i].x = x /\ mapGroup[i].z = z }) = 1

\* C9 witness: the 4 x 4 pass is over and has made its last tile.
C9_Witness ==
    /\ pc = "running"
    /\ mapSize = 4
    /\ \E m \in TileMeshes : m.x = 3 /\ m.z = 3

\* camera.left and camera.right carry the window's aspect.
AspectKept(c, w) ==
    /\ c.left = Scale(c.bottom, w[1], w[2])
    /\ c.right = Scale(c.top, w[1], w[2])

\* C10: after a wheel event camera.top lies in [5, MAP_SIZE * TILE_SIZE *
\* 1.5 / 2], for the MAP_SIZE of the configuration, and camera.bottom =
\* -camera.top; left and right carry the aspect whenever no resize is
\* pending and after every step that changes the frustum; and
\* onWindowResize keeps top - bottom.
C10_Frustum ==
    /\ [](wheeled =>
            /\ camera.top >= Fx(5)
            /\ 2 * 10 * camera.top <= Fx(mapSize * TILE_SIZE * 15)
            /\ camera.bottom = -camera.top
            /\ (~resizePending => AspectKept(camera, win)))
    /\ [][/\ (wheeled' /\ camera' # camera) => AspectKept(camera', win')
          /\ (wheeled' /\ ~wheeled) => AspectKept(camera', win')
          /\ (wheeled /\ resizePending /\ ~resizePending') =>
                /\ AspectKept(camera', win')
                /\ camera'.top - camera'.bottom = camera.top - camera.bottom]_vars

\* C10 witness: zooming in has reached the lower clamp in a window whose
\* size changed after the first wheel event.
C10_Witness ==
    /\ pc = "running"
    /\ wheeled
    /\ ~resizePending
    /\ camera.top = Fx(5)
    /\ camera.left = -38
    /\ win = << 600, 800 >>

\* C11: a step changes the camera position only if it handles a mousemove,
\* or a touchmove with one touch, that found isDragging true; isDragging
\* turns true only in a step that handles a mousedown or a touchstart with
\* one touch; every mouseup, every mouseleave and every touchend with no
\* touch left leaves it false; and a mousemove or touchmove that found
\* isDragging false leaves the camera position and previousMousePosition
\* as they were.
C11_DragOnly ==
    [][/\ cameraPos' # cameraPos =>
            /\ isDragging
            /\ \/ \E p \in Pointers : onMouseMove(p)
               \/ \E p \in Pointers : onTouchMove(1, p)
       /\ (~isDragging /\ isDragging') =>
            \/ \E p \in Pointers : onMouseDown(p)
            \/ \E p \in Pointers : onTouchStart(1, p)
       /\ (MouseUp \/ MouseLeave \/ onTouchEnd(0)) => ~isDragging'
       /\ (~isDragging /\ (MouseMove \/ TouchMove)) =>
            /\ cameraPos' = cameraPos
            /\ previousMousePosition' = previousMousePosition]_vars

\* C11 witness: a drag from (0, 0) to (400, 300) moved the camera along
\* both ground directions and was then released.
C11_Witness ==
    /\ pc = "running"
    /\ ~isDragging
    /\ events = MaxEvents
    /\ cameraPos.right # 0
    /\ cameraPos.forward # 0
    /\ previousMousePosition = [x |-> 400, y |-> 300]

=============================================================================
